---- MODULE Spec2Model ----
(***************************************************************************)
(* A model of scripts/check_bib_usage.py: one run of main(), from argument *)
(* parsing to process exit.  Texts are sequences of one-character strings, *)
(* and the regular expressions of the script are matched on them character *)
(* by character, with Python's backtracking order.                         *)
(***************************************************************************)
EXTENDS Integers, Sequences, FiniteSets, TLC

(***************************************************************************)
(* Characters and Python's str methods                                     *)
(***************************************************************************)
NL == "\n"

\* str.isspace(): the characters \s matches and str.strip() removes.
WS == {" ", "\n", "\t", "\r"}

LowerCase == <<"a","b","c","d","e","f","g","h","i","j","k","l","m",
               "n","o","p","q","r","s","t","u","v","w","x","y","z">>

UpperCase == <<"A","B","C","D","E","F","G","H","I","J","K","L","M",
               "N","O","P","Q","R","S","T","U","V","W","X","Y","Z">>

Digits == {"0","1","2","3","4","5","6","7","8","9"}

Range(s) == {s[i] : i \in DOMAIN s}

\* The characters \w matches.
WordChars == Range(LowerCase) \cup Range(UpperCase) \cup Digits \cup {"_"}

\* str.lower() on one character.
LowerChar(c) ==
  IF c \in Range(UpperCase)
    THEN LowerCase[CHOOSE i \in DOMAIN UpperCase : UpperCase[i] = c]
    ELSE c

\* str.lower()
Lower(s) == [i \in DOMAIN s |-> LowerChar(s[i])]

\* s[a..b-1], Python's s[a-1:b-1] with 1-based positions.
Slice(s, a, b) == IF b <= a THEN <<>> ELSE SubSeq(s, a, b - 1)

\* str.strip()
Strip(s) ==
  LET keep == {i \in DOMAIN s : s[i] \notin WS}
  IN IF keep = {} THEN <<>>
     ELSE LET lo == CHOOSE i \in keep : \A j \in keep : i <= j
              hi == CHOOSE i \in keep : \A j \in keep : j <= i
          IN SubSeq(s, lo, hi)

RECURSIVE SplitFrom(_, _, _)
\* The pieces of s from position p on, cut at every character of seps.
SplitFrom(s, seps, p) ==
  LET cuts == {i \in p..Len(s) : s[i] \in seps}
  IN IF cuts = {} THEN <<Slice(s, p, Len(s) + 1)>>
     ELSE LET c == CHOOSE i \in cuts : \A j \in cuts : i <= j
          IN <<Slice(s, p, c)>> \o SplitFrom(s, seps, c + 1)

\* str.split(',')
SplitComma(s) == SplitFrom(s, {","}, 1)

\* str.splitlines(): no empty last line after a final line break.
SplitLines(s) ==
  IF s = <<>> THEN <<>>
  ELSE LET parts == SplitFrom(s, {NL}, 1)
       IN IF s[Len(s)] = NL THEN SubSeq(parts, 1, Len(parts) - 1) ELSE parts

\* k in text as a substring: re.compile(re.escape(k)).search(text)
Contains(text, k) ==
  \E p \in 1..(Len(text) - Len(k) + 1) : SubSeq(text, p, p + Len(k) - 1) = k

(***************************************************************************)
(* Python's re: a pattern is a tree of the nodes below; Match gives the    *)
(* ends (and groups) of every way the pattern matches at a position, in    *)
(* the order backtracking tries them, so the head is the match re returns. *)
(***************************************************************************)
Lit(s)       == [t |-> "lit", s |-> s, ic |-> FALSE]
LitI(s)      == [t |-> "lit", s |-> s, ic |-> TRUE]
In(cs)       == [t |-> "rep", cs |-> cs, neg |-> FALSE, min |-> 1, max |-> 1, lazy |-> FALSE]
Star(cs)     == [t |-> "rep", cs |-> cs, neg |-> FALSE, min |-> 0, max |-> -1, lazy |-> FALSE]
Plus(cs)     == [t |-> "rep", cs |-> cs, neg |-> FALSE, min |-> 1, max |-> -1, lazy |-> FALSE]
Opt(cs)      == [t |-> "rep", cs |-> cs, neg |-> FALSE, min |-> 0, max |-> 1, lazy |-> FALSE]
StarNot(cs)  == [t |-> "rep", cs |-> cs, neg |-> TRUE, min |-> 0, max |-> -1, lazy |-> FALSE]
PlusNot(cs)  == [t |-> "rep", cs |-> cs, neg |-> TRUE, min |-> 1, max |-> -1, lazy |-> FALSE]
AnyLazy      == [t |-> "rep", cs |-> {}, neg |-> TRUE, min |-> 0, max |-> -1, lazy |-> TRUE]
Cat(rs)      == [t |-> "cat", rs |-> rs]
Alt(rs)      == [t |-> "alt", rs |-> rs]
Grp(n, r)    == [t |-> "grp", n |-> n, r |-> r]
Ahead(r)     == [t |-> "ahead", r |-> r]
EndOfText    == [t |-> "eot"]

NoGroups == [n \in 1..3 |-> <<0, 0>>]

\* The length of the longest run of characters of the class from position p.
RunLen(r, txt, p) ==
  LET ok(i) == (txt[i] \in r.cs) # r.neg
      bad == {i \in p..Len(txt) : ~ok(i)}
      full == IF bad = {} THEN Len(txt) + 1 - p
              ELSE (CHOOSE i \in bad : \A j \in bad : i <= j) - p
  IN IF r.max >= 0 /\ full > r.max THEN r.max ELSE full

RECURSIVE Match(_, _, _, _)
RECURSIVE MatchCat(_, _, _)
RECURSIVE MatchAlt(_, _, _, _)

Match(r, txt, p, g) ==
  CASE r.t = "lit" ->
         LET e == p + Len(r.s)
             got == Slice(txt, p, e)
         IN IF e <= Len(txt) + 1
               /\ (IF r.ic THEN Lower(got) = Lower(r.s) ELSE got = r.s)
              THEN <<[e |-> e, g |-> g]>> ELSE <<>>
    [] r.t = "rep" ->
         LET m == RunLen(r, txt, p)
             n == m - r.min + 1
         IN IF n <= 0 THEN <<>>
            ELSE [i \in 1..n |->
                    [e |-> IF r.lazy THEN p + r.min + (i - 1) ELSE p + m - (i - 1),
                     g |-> g]]
    [] r.t = "cat" -> MatchCat(r.rs, txt, <<[e |-> p, g |-> g]>>)
    [] r.t = "alt" -> MatchAlt(r.rs, txt, p, g)
    [] r.t = "grp" ->
         LET inner == Match(r.r, txt, p, g)
         IN [i \in DOMAIN inner |->
               [e |-> inner[i].e,
                g |-> [inner[i].g EXCEPT ![r.n] = <<p, inner[i].e>>]]]
    [] r.t = "ahead" ->
         IF Len(Match(r.r, txt, p, g)) > 0 THEN <<[e |-> p, g |-> g]>> ELSE <<>>
    [] r.t = "eot" ->
         IF p = Len(txt) + 1 THEN <<[e |-> p, g |-> g]>> ELSE <<>>

RECURSIVE Flatten(_)
Flatten(ss) == IF Len(ss) = 0 THEN <<>> ELSE Head(ss) \o Flatten(Tail(ss))

\* r tried from each way the patterns before it matched, in order.
MatchEach(r, txt, starts) ==
  LET each == [i \in DOMAIN starts |-> Match(r, txt, starts[i].e, starts[i].g)]
  IN Flatten(SelectSeq(each, LAMBDA ms : Len(ms) > 0))

MatchCat(rs, txt, starts) ==
  IF Len(rs) = 0 \/ Len(starts) = 0 THEN starts
  ELSE MatchCat(Tail(rs), txt, MatchEach(Head(rs), txt, starts))

MatchAlt(rs, txt, p, g) ==
  IF Len(rs) = 0 THEN <<>>
  ELSE Match(Head(rs), txt, p, g) \o MatchAlt(Tail(rs), txt, p, g)

\* A match object: its start, its end and its groups.
MatchObject(q, ms) == <<[s |-> q, e |-> ms[1].e, g |-> ms[1].g]>>

\* The match at the least of the positions where the pattern matches.
FirstHit(r, txt, hits) ==
  IF hits = {} THEN <<>>
  ELSE MatchObject(CHOOSE h \in hits : \A j \in hits : h <= j,
                   Match(r, txt, CHOOSE h \in hits : \A j \in hits : h <= j, NoGroups))

\* pattern.search(txt, p): the leftmost match, <<>> for None; else
\* <<[s |-> start, e |-> end, g |-> groups]>>.
SearchFrom(r, txt, p) ==
  FirstHit(r, txt, {q \in p..(Len(txt) + 1) : Len(Match(r, txt, q, NoGroups)) > 0})

Search(r, txt) == SearchFrom(r, txt, 1)

RECURSIVE FindIterFrom(_, _, _)
RECURSIVE FindIterNext(_, _, _)
\* pattern.finditer(txt): the non-overlapping matches, left to right.
FindIterFrom(r, txt, p) == FindIterNext(r, txt, SearchFrom(r, txt, p))

FindIterNext(r, txt, m) ==
  IF Len(m) = 0 THEN <<>>
  ELSE <<m[1]>> \o FindIterFrom(r, txt, IF m[1].e > m[1].s THEN m[1].e ELSE m[1].e + 1)

FindIter(r, txt) == FindIterFrom(r, txt, 1)

\* match.group(n)
Group(txt, m, n) == Slice(txt, m.g[n][1], m.g[n][2])

(***************************************************************************)
(* extract_bib_keys                                                        *)
(***************************************************************************)
\* A text written as a TLA+ string, as the sequence of its characters.
Chars(s) == [i \in 1..Len(s) |-> SubSeq(s, i, i)]

\* r"@(\w+)\s*{\s*([^,\n\r]+)\s*,(.*?)(?=\n@|\Z)", re.IGNORECASE | re.DOTALL
entry_pat ==
  Cat(<<Lit(<<"@">>), Grp(1, Plus(WordChars)), Star(WS), Lit(<<"{">>), Star(WS),
        Grp(2, PlusNot({",", "\n", "\r"})), Star(WS), Lit(<<",">>),
        Grp(3, AnyLazy), Ahead(Alt(<<Lit(<<NL, "@">>), EndOfText>>))>>)

\* r"<name>\s*=\s*[{\"](.*?)[}\"]\s*,?\n", re.IGNORECASE | re.DOTALL
field_pat(name) ==
  Cat(<<LitI(Chars(name)), Star(WS), Lit(<<"=">>), Star(WS), In({"{", "\""}),
        Grp(1, AnyLazy), In({"}", "\""}), Star(WS), Opt({","}), Lit(<<NL>>)>>)

\* if t: title = t.group(1).strip()
FieldValue(body, m) == IF Len(m) = 0 THEN <<>> ELSE <<Strip(Group(body, m[1], 1))>>

\* A field of an entry body: <<>> for None, else <<value>>.
ExtractField(name, body) == FieldValue(body, Search(field_pat(name), body))

Entry(etype, key, body) ==
  [type  |-> etype,
   key   |-> key,
   title |-> ExtractField("title", body),
   doi   |-> ExtractField("doi", body),
   body  |-> body]

\* The entry of one match of entry_pat.
EntryOf(text, m) ==
  Entry(Strip(Group(text, m, 1)), Strip(Group(text, m, 2)), Strip(Group(text, m, 3)))

EntriesOf(text, ms) == [i \in DOMAIN ms |-> EntryOf(text, ms[i])]

extract_bib_keys(text) == EntriesOf(text, FindIter(entry_pat, text))

(***************************************************************************)
(* find_files                                                              *)
(***************************************************************************)
DefaultExts == {Chars(".tex"), Chars(".md"), Chars(".Rmd"), Chars(".sty")}

\* exts is <<>> for None, else <<the set of extensions>>; tree is what
\* root.rglob('*') yields, in its order.
find_files(tree, exts) ==
  LET use == IF Len(exts) = 0 THEN DefaultExts ELSE exts[1]
  IN SelectSeq(tree, LAMBDA p : Lower(p.suffix) \in use)

\* main: the extension set built from --ext (None when the option is absent).
ExtsOfArgs(ext) ==
  IF Len(ext) = 0 THEN <<>>
  ELSE <<{IF Len(e) > 0 /\ e[1] = "." THEN e ELSE <<".">> \o e : e \in Range(ext)}>>

(***************************************************************************)
(* scan_for_usage                                                          *)
(***************************************************************************)
\* The keys of a list, each once: the keys of a dict built from the list.
KeySet(keys) == Range(keys)

\* used = {k: 0 for k in keys}
InitUsed(keys) == [k \in KeySet(keys) |-> 0]

Max(a, b) == IF a >= b THEN a ELSE b

\* r'\\nocite\s*{([^}]*)}'
nocite_pat ==
  Cat(<<Lit(Chars("\\nocite")), Star(WS), Lit(<<"{">>),
        Grp(1, StarNot({"}"})), Lit(<<"}">>)>>)

\* r"\\(cite|citep|citet|parencite|autocite|footcite)\s*{([^}]*)}"
cite_pat ==
  Cat(<<Lit(<<"\\">>),
        Grp(1, Alt(<<Lit(Chars("cite")), Lit(Chars("citep")), Lit(Chars("citet")),
                     Lit(Chars("parencite")), Lit(Chars("autocite")),
                     Lit(Chars("footcite"))>>)),
        Star(WS), Lit(<<"{">>), Grp(2, StarNot({"}"})), Lit(<<"}">>)>>)

\* NociteOne without the branch for '*': the star is looked up as a key.
NociteOne_ListOnly(used, nocite) ==
  [k \in DOMAIN used |->
     IF k \in {Strip(q) : q \in Range(SplitComma(Strip(nocite)))}
       THEN Max(used[k], 1) ELSE used[k]]

\* The body of the loop over re.findall(nocite): one directive's effect.
NociteOne(used, nocite) ==
  LET content == Strip(nocite)
      parts == {Strip(q) : q \in Range(SplitComma(content))}
  IN IF content = <<"*">>
       THEN [k \in DOMAIN used |-> Max(used[k], 1)]
       ELSE [k \in DOMAIN used |-> IF k \in parts THEN Max(used[k], 1) ELSE used[k]]

RECURSIVE NociteAll(_, _)
\* for nocite in re.findall(...): the directives of the text, in order.
NociteAll(used, nocites) ==
  IF Len(nocites) = 0 THEN used
  ELSE NociteAll(NociteOne(used, Head(nocites)), Tail(nocites))

Groups(txt, ms, n) == [i \in DOMAIN ms |-> Group(txt, ms[i], n)]

NociteStep(used, txt) == NociteAll(used, Groups(txt, FindIter(nocite_pat, txt), 1))

\* IsMissing without the test for the empty key.
IsMissing_AnyKey(p, used) == p \notin DOMAIN used

\* if p and p not in used
IsMissing(p, used) == Len(p) > 0 /\ p \notin DOMAIN used

\* missing_cites.setdefault(p, []).append(loc); the dict keeps insertion order.
AddMissing(missing, p, loc) ==
  IF \E i \in DOMAIN missing : missing[i].key = p
    THEN [i \in DOMAIN missing |->
            IF missing[i].key = p
              THEN [missing[i] EXCEPT !.locs = Append(@, loc)]
              ELSE missing[i]]
    ELSE Append(missing, [key |-> p, locs |-> <<loc>>])

RECURSIVE CiteParts(_, _, _, _)
\* for part in group.split(','): the keys of one citation command.
CiteParts(missing, used, parts, loc) ==
  IF Len(parts) = 0 THEN missing
  ELSE LET p == Strip(Head(parts))
       IN CiteParts(IF IsMissing(p, used) THEN AddMissing(missing, p, loc) ELSE missing,
                    used, Tail(parts), loc)

RECURSIVE CiteMatches(_, _, _, _, _)
\* for cite_match in re.finditer(cite, line): the commands of one line.
CiteMatches(missing, used, line, ms, loc) ==
  IF Len(ms) = 0 THEN missing
  ELSE CiteMatches(CiteParts(missing, used, SplitComma(Group(line, Head(ms), 2)), loc),
                   used, line, Tail(ms), loc)

RECURSIVE CiteLines(_, _, _, _, _)
\* for lineno, line in enumerate(txt.splitlines(), start=1)
CiteLines(missing, used, path, lines, lineno) ==
  IF lineno > Len(lines) THEN missing
  ELSE LET line == lines[lineno]
           loc == [file |-> path, line |-> lineno, text |-> Strip(line)]
       IN CiteLines(CiteMatches(missing, used, line, FindIter(cite_pat, line), loc),
                    used, path, lines, lineno + 1)

CiteStep(missing, used, path, txt) == CiteLines(missing, used, path, SplitLines(txt), 1)

\* CountStep assigning the count of this file instead of adding to it.
CountStep_Assign(used, txt) ==
  [k \in DOMAIN used |-> IF Contains(txt, k) THEN 1 ELSE 0]

\* for k, pat in key_patterns.items(): if pat.search(txt): used[k] += 1
CountStep(used, txt) ==
  [k \in DOMAIN used |-> IF Contains(txt, k) THEN used[k] + 1 ELSE used[k]]

\* '\n'.join(lines): the text of a file written as its lines.
RECURSIVE JoinLines(_)
JoinLines(lines) ==
  IF Len(lines) = 0 THEN <<>>
  ELSE IF Len(lines) = 1 THEN lines[1]
  ELSE lines[1] \o <<NL>> \o JoinLines(Tail(lines))

\* f.resolve() == bib_path.resolve(); an exception in it is passed over.
IsBibFile(f) == f.resolve = "bib"

\* ReadText without the try/except: what the file holds is scanned anyway.
ReadText_Unguarded(f) == <<JoinLines(f.lines)>>

\* f.read_text(encoding='utf8', errors='ignore'): <<>> when it raises,
\* else <<the text>>.
ReadText(f) == IF f.readable THEN <<JoinLines(f.lines)>> ELSE <<>>

\* The loop body after the nocite directives were applied.
ScanCited(used, missing, path, txt) ==
  <<CountStep(used, txt), CiteStep(missing, used, path, txt)>>

\* The loop body for a file that was read.
ScanText(used, missing, path, txt) ==
  ScanCited(NociteStep(used, txt), missing, path, txt)

\* The loop body once the file is known not to be the bibliography.
ScanRead(used, missing, path, r) ==
  IF Len(r) = 0 THEN <<used, missing>> ELSE ScanText(used, missing, path, r[1])

\* One iteration of the loop over files: <<used, missing_cites>> after it.
ScanOne(used, missing, f) ==
  IF IsBibFile(f) THEN <<used, missing>>
  ELSE ScanRead(used, missing, f.path, ReadText(f))

RECURSIVE ScanFrom(_, _, _)
RECURSIVE ScanRest(_, _)
ScanFrom(used, missing, files) ==
  IF Len(files) = 0 THEN <<used, missing>>
  ELSE ScanRest(ScanOne(used, missing, Head(files)), Tail(files))

ScanRest(r, files) == ScanFrom(r[1], r[2], files)

\* scan_for_usage(keys, files, bib_path): <<used, missing_cites>>.
scan_for_usage(keys, files) == ScanFrom(InitUsed(keys), <<>>, files)

(***************************************************************************)
(* main: duplicate detection and the report                                *)
(***************************************************************************)
RECURSIVE Dedupe(_)
\* The elements of a list, each once, in the order of their first occurrence:
\* the iteration order of a dict (or Counter) filled from the list.
Dedupe(s) ==
  IF Len(s) = 0 THEN <<>>
  ELSE LET d == Dedupe(SubSeq(s, 1, Len(s) - 1))
       IN IF s[Len(s)] \in Range(d) THEN d ELSE Append(d, s[Len(s)])

Count(s, x) == Cardinality({i \in DOMAIN s : s[i] = x})

\* [k for k, cnt in Counter(keys).items() if cnt > 1]
DupKeys(keys) == SelectSeq(Dedupe(keys), LAMBDA k : Count(keys, k) > 1)

\* re.sub(r"\s+", " ", s)
CollapseWS(s) ==
  LET marked == [i \in DOMAIN s |->
                   IF s[i] \notin WS THEN <<s[i]>>
                   ELSE IF i = 1 \/ s[i - 1] \notin WS THEN <<" ">> ELSE <<>>]
  IN Flatten(SelectSeq(marked, LAMBDA m : Len(m) > 0))

\* re.sub(r"\s+", " ", e['title'].strip().lower())
NormTitle(t) == CollapseWS(Lower(Strip(t)))

\* e['doi'].strip().lower()
NormDoi(d) == Lower(Strip(d))

\* map.setdefault(v, []).append(key); the dict keeps insertion order.
AddGroup(map, v, key) ==
  IF \E i \in DOMAIN map : map[i].val = v
    THEN [i \in DOMAIN map |->
            IF map[i].val = v THEN [map[i] EXCEPT !.keys = Append(@, key)] ELSE map[i]]
    ELSE Append(map, [val |-> v, keys |-> <<key>>])

\* if e.get('title'): a field that is neither None nor empty.
Truthy(field) == Len(field) = 1 /\ Len(field[1]) > 0

RECURSIVE TitleMap(_, _)
TitleMap(map, entries) ==
  IF Len(entries) = 0 THEN map
  ELSE LET e == Head(entries)
       IN TitleMap(IF Truthy(e.title) THEN AddGroup(map, NormTitle(e.title[1]), e.key)
                   ELSE map, Tail(entries))

RECURSIVE DoiMap(_, _)
DoiMap(map, entries) ==
  IF Len(entries) = 0 THEN map
  ELSE LET e == Head(entries)
       IN DoiMap(IF Truthy(e.doi) THEN AddGroup(map, NormDoi(e.doi[1]), e.key)
                 ELSE map, Tail(entries))

\* {t: ks for t, ks in map.items() if len(ks) > 1}
DupGroups(map) == SelectSeq(map, LAMBDA g : Len(g.keys) > 1)

DupTitles(entries) == DupGroups(TitleMap(<<>>, entries))

DupDois(entries) == DupGroups(DoiMap(<<>>, entries))

\* NoEntries with the test left out.
NoEntries_Never(entries) == FALSE

\* if not entries
NoEntries(entries) == Len(entries) = 0

\* One printed line: its fixed text, its number (-1 for none), its texts.
Line(s, n, k) == [s |-> s, n |-> n, k |-> k]

\* print('No entries found in', bib_path)
NoEntriesOutput(bibPath) == <<Line("No entries found in", -1, <<bibPath>>)>>

\* [k for k, c in used.items() if c > 0]
UsedKeys(used, keys) == SelectSeq(Dedupe(keys), LAMBDA k : used[k] > 0)

\* [k for k, c in used.items() if c == 0]
UnusedKeys(used, keys) == SelectSeq(Dedupe(keys), LAMBDA k : used[k] = 0)

Bullets(ks) == [i \in DOMAIN ks |-> Line("-", -1, <<ks[i]>>)]

GroupBullets(gs) == [i \in DOMAIN gs |-> Line("-", -1, gs[i].keys)]

MissingLines(missing) ==
  Flatten([i \in DOMAIN missing |->
             <<Line("-", -1, <<missing[i].key>>)>>
             \o [j \in DOMAIN missing[i].locs |->
                   Line("loc", missing[i].locs[j].line,
                        <<missing[i].locs[j].file, missing[i].locs[j].text>>)]])

\* The prints of main after the scan, in order.
ReportLines(keys, used, dupKeys, dupTitles, dupDois, missing) ==
  <<Line("Total bib entries:", Len(keys), <<>>),
    Line("Used entries:", Len(UsedKeys(used, keys)), <<>>),
    Line("Unused entries:", Len(UnusedKeys(used, keys)), <<>>)>>
  \o (IF Len(UnusedKeys(used, keys)) > 0
        THEN <<Line("\nList of unused keys:", -1, <<>>)>> \o Bullets(UnusedKeys(used, keys))
        ELSE <<Line("\nAll bib entries appear to be referenced (or covered by \nocite{*}).",
                    -1, <<>>)>>)
  \o (IF Len(dupKeys) > 0
        THEN <<Line("\nDuplicate bib keys in file:", -1, <<>>)>> \o Bullets(dupKeys)
        ELSE <<>>)
  \o (IF Len(dupTitles) > 0
        THEN <<Line("\nDuplicate titles (different keys with same title):", -1, <<>>)>>
             \o GroupBullets(dupTitles)
        ELSE <<>>)
  \o (IF Len(dupDois) > 0
        THEN <<Line("\nDuplicate DOIs (different keys with same DOI):", -1, <<>>)>>
             \o GroupBullets(dupDois)
        ELSE <<>>)
  \o (IF Len(missing) > 0
        THEN <<Line("\nCitation keys referenced in source but missing from bibliography:",
                    -1, <<>>)>> \o MissingLines(missing)
        ELSE <<>>)

(***************************************************************************)
(* The inputs of a run: the bibliography file, the tree under --root and   *)
(* the --ext options.  A bibliography is given by the entries its author   *)
(* wrote and the layout they are written in; a document by its lines and   *)
(* the citations its author made in them.                                  *)
(***************************************************************************)
MaxFiles == 2

None == <<>>

Some(s) == <<Chars(s)>>

Rec(type, key, title, doi) ==
  [type |-> Chars(type), key |-> Chars(key), title |-> title, doi |-> doi]

\* The fields of an entry that are present, each as name and value.
FieldsOf(e) ==
  (IF Len(e.title) = 1 THEN <<<<Chars("title"), e.title[1]>>>> ELSE <<>>)
  \o (IF Len(e.doi) = 1 THEN <<<<Chars("doi"), e.doi[1]>>>> ELSE <<>>)

RECURSIVE JoinWith(_, _)
JoinWith(parts, sep) ==
  IF Len(parts) = 0 THEN <<>>
  ELSE IF Len(parts) = 1 THEN parts[1]
  ELSE parts[1] \o sep \o JoinWith(Tail(parts), sep)

\* "bare":      @article{foo}   (no comma after the key: not an entry block)
\* "oneline":   @article{foo, title={A Study}, doi={10.1/x}}
\* "multiline": @article{foo,
\*                title = {A Study},
\*                doi = {10.1/x}
\*              }
RenderEntry(e, layout) ==
  LET fs == FieldsOf(e)
      open == <<"@">> \o e.type \o <<"{">> \o e.key \o <<",">>
  IN IF layout = "bare" THEN <<"@">> \o e.type \o <<"{">> \o e.key \o <<"}">>
     ELSE IF layout = "oneline"
       THEN open
            \o JoinWith([i \in DOMAIN fs |->
                           <<" ">> \o fs[i][1] \o Chars("={") \o fs[i][2] \o <<"}">>],
                        <<",">>)
            \o <<"}">>
       ELSE open \o <<NL>>
            \o JoinWith([i \in DOMAIN fs |->
                           Chars("  ") \o fs[i][1] \o Chars(" = {") \o fs[i][2] \o <<"}">>],
                        <<",", NL>>)
            \o (IF Len(fs) > 0 THEN <<NL>> ELSE <<>>) \o <<"}">>

\* The text of the bibliography file.
BibText(b) ==
  b.preamble \o JoinLines([i \in DOMAIN b.recs |-> RenderEntry(b.recs[i], b.layout)]) \o <<NL>>

BibPath == Chars("lit.bib")

BibFile(status, layout, recs) ==
  [status |-> status, layout |-> layout, preamble |-> Chars("% refs\n"), recs |-> recs]

BibABC ==
  BibFile("ok", "multiline",
          <<Rec("misc", "a", None, None), Rec("misc", "b", None, None),
            Rec("misc", "c", None, None)>>)

BibOneLine ==
  BibFile("ok", "oneline",
          <<Rec("article", "foo", Some("A Study"), Some("10.1/x")),
            Rec("article", "bar", Some("A Study"), Some("10.1/y"))>>)

BibSameTitle ==
  BibFile("ok", "multiline",
          <<Rec("article", "foo", Some("A Study"), Some("10.1/x")),
            Rec("article", "bar", Some("a  STUDY"), Some("10.1/y"))>>)

BibSameDoi ==
  BibFile("ok", "multiline",
          <<Rec("article", "foo", Some("A Study"), Some("10.1/X")),
            Rec("book", "bar", Some("B Study"), Some("10.1/x"))>>)

BibDupKey ==
  BibFile("ok", "multiline",
          <<Rec("misc", "foo", None, None), Rec("misc", "foo", None, None),
            Rec("misc", "bar", None, None)>>)

\* Two blocks without the comma after the key.
BibMalformed ==
  BibFile("ok", "bare", <<Rec("misc", "a", None, None), Rec("misc", "b", None, None)>>)

BibInputs ==
  {BibFile("missing", "multiline", <<>>), BibFile("unreadable", "multiline", <<>>),
   BibFile("ok", "multiline", <<>>), BibMalformed,
   BibABC, BibOneLine, BibSameTitle, BibSameDoi, BibDupKey}

\* A citation the author of a document made: the key, the line it stands
\* on, and whether the command's braces open and close on that line.
Cited(key, line, closed) == [key |-> Chars(key), line |-> line, closed |-> closed]

Doc(id, path, suffix, resolve, readable, lines, cites, nociteAll) ==
  [id |-> id, path |-> Chars(path), suffix |-> Chars(suffix), resolve |-> resolve,
   readable |-> readable, lines |-> lines, cites |-> cites, nociteAll |-> nociteAll]

DocCiteA ==
  Doc(1, "a.tex", ".tex", "other", TRUE, <<Chars("\\cite{a}")>>,
      <<Cited("a", 1, TRUE)>>, FALSE)

DocNotes ==
  Doc(2, "notes.md", ".md", "other", TRUE,
      <<Chars("see foo"), Chars("  \\citep{x, foo} or \\footcite {x}  ")>>,
      <<Cited("x", 2, TRUE), Cited("foo", 2, TRUE), Cited("x", 2, TRUE)>>, FALSE)

DocRmd ==
  Doc(3, "r.Rmd", ".Rmd", "other", TRUE, <<Chars("\\autocite{bar}")>>,
      <<Cited("bar", 1, TRUE)>>, FALSE)

DocNociteAll ==
  Doc(4, "all.sty", ".sty", "other", TRUE,
      <<Chars("\\cite{ , y}"), Chars("\\nocite{*}")>>,
      <<Cited("y", 1, TRUE)>>, TRUE)

DocSplit ==
  Doc(5, "split.tex", ".tex", "other", TRUE,
      <<Chars("\\parencite{y,"), Chars(" z}")>>,
      <<Cited("y", 1, FALSE), Cited("z", 2, FALSE)>>, FALSE)

\* A file that cannot be read (and whose path cannot be resolved).
DocBad ==
  Doc(6, "bad.tex", ".tex", "error", FALSE, <<Chars("\\cite{x} bar b")>>,
      <<Cited("x", 1, TRUE)>>, FALSE)

\* The bibliography file itself, found under the root.
DocBib == Doc(7, "lit.bib", ".bib", "bib", TRUE, <<>>, <<>>, FALSE)

Docs == {DocCiteA, DocNotes, DocRmd, DocNociteAll, DocSplit, DocBad, DocBib}

\* What root.rglob('*') can yield: up to MaxFiles distinct files, in any order.
Trees ==
  UNION {{t \in [1..n -> Docs] : \A i, j \in 1..n : i # j => t[i] # t[j]} : n \in 0..MaxFiles}

\* The values of --ext: absent, or given once or twice.
ExtArgs == {<<>>, <<Chars("bib")>>, <<Chars(".Rmd"), Chars("md")>>}

(***************************************************************************)
(* The run                                                                 *)
(***************************************************************************)
VARIABLES
  bib,            \* the file at --bib
  tree,           \* the files under --root
  ext,            \* args.ext
  pc,             \* where main is
  entries,        \* extract_bib_keys' result
  keys, dup_keys, dup_titles, dup_dois, files,
  i,              \* the index in files of the file scan_for_usage is at
  used, missing_cites,
  scanCalls,      \* how often scan_for_usage was called
  out, err,       \* what was printed to stdout and stderr
  exitCode        \* the exit code, -1 while running

vars == <<bib, tree, ext, pc, entries, keys, dup_keys, dup_titles, dup_dois, files, i,
          used, missing_cites, scanCalls, out, err, exitCode>>

inputs == <<bib, tree, ext>>

Init ==
  /\ bib \in BibInputs
  /\ tree \in Trees
  /\ (bib.status = "missing" => \A n \in DOMAIN tree : tree[n].resolve # "bib")
  /\ ext \in ExtArgs
  /\ pc = "start"
  /\ entries = <<>>
  /\ keys = <<>>
  /\ dup_keys = <<>>
  /\ dup_titles = <<>>
  /\ dup_dois = <<>>
  /\ files = <<>>
  /\ i = 0
  /\ used = <<>>
  /\ missing_cites = <<>>
  /\ scanCalls = 0
  /\ out = <<>>
  /\ err = <<>>
  /\ exitCode = -1

\* if not bib_path.exists(): print(..., file=sys.stderr); sys.exit(2)
CheckBib ==
  /\ pc = "start"
  /\ IF bib.status = "missing"
       THEN /\ err' = <<Line("Error: bib file not found:", -1, <<BibPath>>)>>
            /\ exitCode' = 2
            /\ pc' = "exit"
       ELSE /\ pc' = "extract"
            /\ UNCHANGED <<err, exitCode>>
  /\ UNCHANGED <<inputs, entries, keys, dup_keys, dup_titles, dup_dois, files, i, used,
                 missing_cites, scanCalls, out>>

\* entries = extract_bib_keys(bib_path); without entries, exit 0.  read_text
\* in extract_bib_keys is not guarded: when it raises, the interpreter prints
\* the traceback and exits with code 1.
Extract ==
  /\ pc = "extract"
  /\ IF bib.status = "unreadable"
       THEN /\ err' = <<Line("Traceback (most recent call last):", -1, <<>>)>>
            /\ exitCode' = 1
            /\ pc' = "exit"
            /\ UNCHANGED <<entries, out>>
       ELSE /\ entries' = extract_bib_keys(BibText(bib))
            /\ IF NoEntries(entries')
                 THEN /\ out' = NoEntriesOutput(BibPath)
                      /\ exitCode' = 0
                      /\ pc' = "exit"
                 ELSE /\ pc' = "prepare"
                      /\ UNCHANGED <<out, exitCode>>
            /\ UNCHANGED err
  /\ UNCHANGED <<inputs, keys, dup_keys, dup_titles, dup_dois, files, i, used,
                 missing_cites, scanCalls>>

\* From keys = [...] to the call of scan_for_usage and its first lines.
Prepare ==
  /\ pc = "prepare"
  /\ keys' = [n \in DOMAIN entries |-> entries[n].key]
  /\ dup_keys' = DupKeys(keys')
  /\ dup_titles' = DupTitles(entries)
  /\ dup_dois' = DupDois(entries)
  /\ files' = find_files(tree, ExtsOfArgs(ext))
  /\ scanCalls' = scanCalls + 1
  /\ used' = InitUsed(keys')
  /\ missing_cites' = <<>>
  /\ i' = 1
  /\ pc' = "scan"
  /\ UNCHANGED <<inputs, entries, out, err, exitCode>>

\* One iteration of scan_for_usage's loop over files.
ScanFile ==
  /\ pc = "scan"
  /\ i <= Len(files)
  /\ \E r \in {ScanOne(used, missing_cites, files[i])} :
       /\ used' = r[1]
       /\ missing_cites' = r[2]
  /\ i' = i + 1
  /\ UNCHANGED <<inputs, pc, entries, keys, dup_keys, dup_titles, dup_dois, files,
                 scanCalls, out, err, exitCode>>

\* scan_for_usage returns; main prints the report and ends.
Report ==
  /\ pc = "scan"
  /\ i > Len(files)
  /\ out' = ReportLines(keys, used, dup_keys, dup_titles, dup_dois, missing_cites)
  /\ exitCode' = 0
  /\ pc' = "exit"
  /\ UNCHANGED <<inputs, entries, keys, dup_keys, dup_titles, dup_dois, files, i, used,
                 missing_cites, scanCalls, err>>

Next == CheckBib \/ Extract \/ Prepare \/ ScanFile \/ Report

Spec == Init /\ [][Next]_vars

(***************************************************************************)
(* Properties                                                              *)
(***************************************************************************)
\* main printed the report (and not the no-entries message).
Reported == pc = "exit" /\ scanCalls > 0

\* The files scan_for_usage has read so far.
WasScanned(n) ==
  n \in 1..(i - 1) /\ n <= Len(files) /\ files[n].readable /\ files[n].resolve # "bib"

\* C1: with the bibliography keys a, b, c and a scanned document set whose
\* only content is \cite{a}, the used keys are exactly {a} and the unused
\* keys exactly {b, c}.
C1_OnlyCitedKeyUsed ==
  (/\ Reported
   /\ keys = <<Chars("a"), Chars("b"), Chars("c")>>
   /\ Len(files) > 0
   /\ \A n \in DOMAIN files : files[n].readable /\ files[n].lines = <<Chars("\\cite{a}")>>)
  => /\ Range(UsedKeys(used, keys)) = {Chars("a")}
     /\ Range(UnusedKeys(used, keys)) = {Chars("b"), Chars("c")}

\* C2: a run ends with a non-zero exit code only when the bibliography path
\* does not exist (code 2, a message on stderr); whenever the path exists
\* the run ends with exit code 0.
C2_NonZeroExitOnlyIfMissing ==
  pc = "exit" =>
    /\ exitCode # 0 => (bib.status = "missing" /\ exitCode = 2 /\ Len(err) > 0)
    /\ bib.status # "missing" => exitCode = 0

\* A run on an existing bibliography from which zero entries were extracted.
ZeroEntriesRun == pc = "exit" /\ bib.status = "ok" /\ Len(entries) = 0

\* C3 as stated: a zero-entry bibliography makes the run print exactly the
\* line "Total bib entries: 0", never call scan_for_usage, and exit 0.
C3_ZeroEntriesPrintsTotal ==
  ZeroEntriesRun =>
    /\ out = <<[s |-> "Total bib entries:", n |-> 0, k |-> <<>>]>>
    /\ scanCalls = 0
    /\ exitCode = 0

\* C3 amended: a zero-entry bibliography makes the run print exactly the
\* line "No entries found in <bib path>", never call scan_for_usage, and
\* exit 0.
C3_ZeroEntriesPrintsNoEntries ==
  ZeroEntriesRun =>
    /\ out = <<[s |-> "No entries found in", n |-> -1, k |-> <<BibPath>>]>>
    /\ err = <<>>
    /\ scanCalls = 0
    /\ exitCode = 0

C3_Witness == ZeroEntriesRun /\ bib.layout = "bare" /\ Len(out) = 1

\* The extensions the --ext options name, each with its leading dot.
NamedExts == {IF e[1] = "." THEN e ELSE <<".">> \o e : e \in Range(ext)}

\* C4: the files scanned are exactly the files under the root whose
\* extension is a default extension or one passed via --ext.
C4_DefaultsPlusExt ==
  scanCalls > 0 =>
    files = SelectSeq(tree, LAMBDA p : p.suffix \in DefaultExts \cup NamedExts)

\* C5: once a readable scanned file containing \nocite{*} has been
\* processed, every known key has usage count >= 1.
C5_NociteAllMarksEveryKey ==
  (\E n \in DOMAIN files : WasScanned(n) /\ files[n].nociteAll)
    => \A k \in Range(keys) : used[k] >= 1

\* A \nocite{*} file was scanned and some key stands in no file's text.
C5_Witness ==
  /\ Reported
  /\ \E n \in DOMAIN files : WasScanned(n) /\ files[n].nociteAll
  /\ \E k \in Range(keys) :
       \A n \in DOMAIN files : ~Contains(JoinLines(files[n].lines), k)

\* The record a citation the author made should give.
RecordOf(f, c) == [file |-> f.path, line |-> c.line, text |-> Strip(f.lines[c.line])]

\* The citations made in the scanned files so far of key x, in order; with
\* closedOnly, those whose command opens and closes its braces on one line.
MadeIn(n, x, closedOnly) ==
  IF WasScanned(n)
    THEN LET cs == SelectSeq(files[n].cites,
                             LAMBDA c : c.key = x /\ (closedOnly => c.closed))
         IN [j \in DOMAIN cs |-> RecordOf(files[n], cs[j])]
    ELSE <<>>

Made(x, closedOnly) == Flatten([n \in DOMAIN files |-> MadeIn(n, x, closedOnly)])

\* The keys cited in the scanned files so far.
CitedKeys(closedOnly) ==
  UNION {{c.key : c \in {cc \in Range(files[n].cites) : closedOnly => cc.closed}} :
           n \in {m \in DOMAIN files : WasScanned(m)}}

\* missing_cites holds, for each unknown key, exactly the records of the
\* citations made of it, in order, and nothing else.
MissingMatches(closedOnly) ==
  /\ \A m \in DOMAIN missing_cites :
       /\ missing_cites[m].key \notin Range(keys)
       /\ Len(missing_cites[m].locs) > 0
       /\ missing_cites[m].locs = Made(missing_cites[m].key, closedOnly)
       /\ \A m2 \in DOMAIN missing_cites :
            m2 # m => missing_cites[m2].key # missing_cites[m].key
  /\ \A x \in CitedKeys(closedOnly) \ Range(keys) :
       \E m \in DOMAIN missing_cites : missing_cites[m].key = x

\* C6 as stated: every occurrence of a non-empty unknown key in the argument
\* list of a citation command appends exactly one record (path, 1-based
\* line, trimmed line) to that key's list, in order; no record for a known key.
C6_EveryCitationRecorded == MissingMatches(FALSE)

\* C6 amended: the same, for the citation commands whose name is followed,
\* after optional whitespace only, by a braced key list that opens and
\* closes on the line of the command.
C6_EveryOneLineCitationRecorded == MissingMatches(TRUE)

\* A key was recorded twice, and a citation of a known key was scanned.
C6_Witness ==
  /\ Reported
  /\ \E m \in DOMAIN missing_cites : Len(missing_cites[m].locs) >= 2
  /\ CitedKeys(TRUE) \cap Range(keys) # {}

\* The keys classified used.
Classify(u) == {k \in DOMAIN u : u[k] > 0}

\* The files in the order of their ids.
ById(fs) == SortSeq(fs, LAMBDA a, b : a.id < b.id)

C7_Monotone ==
  \A k \in DOMAIN used : k \in DOMAIN used' /\ used'[k] >= used[k]

C7_SameClassification ==
  Reported => Classify(used) = Classify(scan_for_usage(keys, ById(files))[1])

\* C7: no usage count ever decreases, and the final used/unused
\* classification is that of the same files scanned in the order of their
\* ids: every ordering of the files gives the same classification.
C7_MonotoneAndOrderFree == [][C7_Monotone]_vars /\ []C7_SameClassification

\* Two files were scanned in the other order, and a key was counted twice.
C7_Witness ==
  /\ Reported
  /\ files # ById(files)
  /\ \E k \in DOMAIN used : used[k] >= 2
  /\ \E k \in DOMAIN used : used[k] = 0

\* The file the loop is at cannot be read.
AtFailingFile ==
  pc = "scan" /\ i <= Len(files) /\ files[i].resolve # "bib" /\ ~files[i].readable

C8_SkipStep ==
  AtFailingFile =>
    /\ used' = used
    /\ missing_cites' = missing_cites
    /\ pc' = "scan"
    /\ i' = i + 1

C8_SameAsWithout ==
  Reported =>
    <<used, missing_cites>>
      = scan_for_usage(keys, SelectSeq(files, LAMBDA f : f.readable \/ f.resolve = "bib"))

\* C8: a file whose read fails changes no count and no missing-citation
\* list, the loop goes on to the next file, and the result is that of the
\* same file list without the failing file.
C8_FailingFileSkipped == [][C8_SkipStep]_vars /\ []C8_SameAsWithout

\* A failing file was followed by a file that was read and left a record.
C8_Witness ==
  /\ Reported
  /\ \E n \in DOMAIN files :
       /\ ~files[n].readable
       /\ n < Len(files)
       /\ files[n + 1].readable
  /\ Len(missing_cites) > 0

\* The groups of a duplicate report that hold both keys.
GroupsWith(groups, k1, k2) ==
  {g \in DOMAIN groups : k1 \in Range(groups[g].keys) /\ k2 \in Range(groups[g].keys)}

\* C9: two entries with different keys, the same normalized title and
\* different DOIs are together in exactly one duplicate-title group and in no
\* duplicate-DOI group; entries with different normalized titles share no
\* duplicate-title group.
C9_SameTitleGrouped ==
  Reported =>
    \A a, b \in DOMAIN bib.recs :
      (/\ bib.recs[a].key # bib.recs[b].key
       /\ Len(bib.recs[a].title) = 1 /\ Len(bib.recs[b].title) = 1
       /\ Len(bib.recs[a].doi) = 1 /\ Len(bib.recs[b].doi) = 1)
      => /\ (/\ NormTitle(bib.recs[a].title[1]) = NormTitle(bib.recs[b].title[1])
             /\ NormDoi(bib.recs[a].doi[1]) # NormDoi(bib.recs[b].doi[1]))
            => /\ Cardinality(GroupsWith(dup_titles, bib.recs[a].key, bib.recs[b].key)) = 1
               /\ GroupsWith(dup_dois, bib.recs[a].key, bib.recs[b].key) = {}
         /\ NormTitle(bib.recs[a].title[1]) # NormTitle(bib.recs[b].title[1])
            => GroupsWith(dup_titles, bib.recs[a].key, bib.recs[b].key) = {}

\* C10: in every printed report, Used entries + Unused entries = Total bib
\* entries.
C10_UsedPlusUnusedIsTotal ==
  Reported => out[2].n + out[3].n = out[1].n
====
